---- MODULE Spec2Model ----
(***************************************************************************)
(* Model of scripts/download_datasets.py: the DatasetDownloader class and  *)
(* the __main__ driver.  The state is the raw-data root on disk, the       *)
(* importability of the kagglehub package, the kagglehub cache, and the    *)
(* position of the single thread of control inside run().                  *)
(*                                                                         *)
(* Paths below the raw-data root are sequences of names; <<>> is the root  *)
(* itself.  A file's content is a record: fmt is what the bytes really are *)
(* ("zip", "tar" or "raw"), members the archive's member list, data the    *)
(* identity of the bytes.                                                  *)
(***************************************************************************)
EXTENDS Integers, Sequences, FiniteSets, TLC

VARIABLES
    pc,         \* position of control: a step of run(), or "exited"
    exitCode,   \* -1 while running, else the process's exit code
    files,      \* function: path of a regular file under the root -> content
    dirs,       \* set of paths of existing directories (<<>> is the root)
    hubState,   \* what `import kagglehub` does: "ok", "absent", "broken"
    hub,        \* the path kagglehub.dataset_download returned, and what is there
    log,        \* the current process's observable steps, in order
    runs,       \* number of processes started so far
    synced,     \* datasets whose sync ran to its "completed!" message in some run
    had,        \* dataset directories that existed when their sync started (this run)
    last        \* the helper call made by the unit driver, and its result

vars == <<pc, exitCode, files, dirs, hubState, hub, log, runs, synced, had, last>>

-----------------------------------------------------------------------------
(* Bounds *)

\* number of times the script is started on the same disk
MaxRuns == 2

\* number of helper calls the unit driver makes in a row
MaxCalls == 1

-----------------------------------------------------------------------------
(* File contents *)

Raw(d) == [fmt |-> "raw", members |-> <<>>, data |-> d]

Archive(f, ms, d) == [fmt |-> f, members |-> ms, data |-> d]

Member(p, d) == [path |-> p, data |-> d]

\* member lists of the archives the remote ends may serve
MembersFlat == <<Member(<<"a.txt">>, "c1")>>

MembersNested == <<Member(<<"GTSDB", "a.txt">>, "c1"), Member(<<"GTSDB", "b.txt">>, "c2")>>

MembersTwo == <<Member(<<"x.jpg">>, "c1"), Member(<<"sub", "y.jpg">>, "c2")>>

\* sha256(...).hexdigest() of each content: lower-case hex, distinct per content
Sha256Hex(content) ==
    CASE content.data = "c1" -> "aa11"
      [] content.data = "c2" -> "bb22"
      [] content.data = "zf" -> "cc33"
      [] content.data = "zn" -> "dd44"
      [] content.data = "z0" -> "ee55"
      [] content.data = "tf" -> "ff66"
      [] content.data = "html" -> "0a77"
      [] content.data = "part" -> "1b88"
      [] OTHER -> "2c99"

-----------------------------------------------------------------------------
(* Path.suffix and str.lower *)

\* the characters of each file name that is used as an archive path
NameChars(name) ==
    CASE name = "FullIJCNN2013.zip" ->
            <<"F","u","l","l","I","J","C","N","N","2","0","1","3",".","z","i","p">>
      [] name = "a.zip"    -> <<"a",".","z","i","p">>
      [] name = "a.ZIP"    -> <<"a",".","Z","I","P">>
      [] name = "a.tar"    -> <<"a",".","t","a","r">>
      [] name = "a.tar.gz" -> <<"a",".","t","a","r",".","g","z">>
      [] name = "a.Tgz"    -> <<"a",".","T","g","z">>
      [] name = "a.7z"     -> <<"a",".","7","z">>
      [] name = "a.zip.7z" -> <<"a",".","z","i","p",".","7","z">>
      [] name = ".zip"     -> <<".","z","i","p">>
      [] name = "zip"      -> <<"z","i","p">>

\* str.rfind('.') as a 1-based index, 0 when there is no dot
RFindDot(s) ==
    IF \E i \in 1..Len(s) : s[i] = "."
    THEN CHOOSE i \in 1..Len(s) : s[i] = "." /\ \A j \in (i+1)..Len(s) : s[j] # "."
    ELSE 0

\* PurePath.suffix: the final component's last dot and what follows it, unless
\* the dot is the first or the last character
suffix(name) ==
    LET s == NameChars(name)
        i == RFindDot(s)
    IN IF 1 < i /\ i < Len(s) THEN SubSeq(s, i, Len(s)) ELSE <<>>

LowerChar(c) ==
    CASE c = "Z" -> "z"
      [] c = "I" -> "i"
      [] c = "P" -> "p"
      [] c = "T" -> "t"
      [] c = "F" -> "f"
      [] c = "J" -> "j"
      [] c = "C" -> "c"
      [] c = "N" -> "n"
      [] OTHER   -> c

\* the suffix compared as spelled, without .lower()
lower_missing(s) == s

lower(s) == [i \in 1..Len(s) |-> LowerChar(s[i])]

-----------------------------------------------------------------------------
(* The file system under the raw-data root *)

Root == <<>>

ArchiveName == "FullIJCNN2013.zip"

filepath == <<ArchiveName>>

gtsdb_dir == <<"GTSDB">>

lisa_dir == <<"LISA">>

readme_path == <<"README.md">>

readme_content == Raw("readme_fixed")

\* Path.exists()
exists(p) == p \in dirs \/ p \in DOMAIN files

\* every directory on the way to the file at path p, the root included
Parents(p) == {SubSeq(p, 1, n) : n \in 0..(Len(p) - 1)}

\* the file system after the entries ms[i], i in idx, were written below
\* dest in index order, each with the directories leading to it: what
\* ZipFile.extractall, TarFile.extractall and shutil.copytree leave behind
Written(dest, ms, idx) ==
    LET paths == {dest \o ms[i].path : i \in idx}
        Latest(p) == CHOOSE i \in idx :
                        /\ dest \o ms[i].path = p
                        /\ \A j \in idx : j > i => dest \o ms[j].path # p
    IN [f |-> [p \in DOMAIN files \cup paths |->
                  IF p \in paths THEN Raw(ms[Latest(p)].data) ELSE files[p]],
        d |-> dirs \cup UNION {Parents(p) : p \in paths}]

-----------------------------------------------------------------------------
(* Inputs from outside the program *)

\* what the GTSDB URL may serve: a zip of loose files, a zip whose members
\* lie below GTSDB/, an empty zip, or an HTML error page
Served ==
    { Archive("zip", MembersFlat, "zf"),
      Archive("zip", MembersNested, "zn"),
      Archive("zip", <<>>, "z0"),
      Raw("html") }

\* how a transfer may end: completed, failed before the destination was
\* opened, failed after part of it was written, or interrupted by the user
Net == {"ok", "err_open", "err_partial", "int"}

\* what kagglehub.dataset_download may return: a path and what is found there
HubPath(kind, name, content, tree) ==
    [kind |-> kind, name |-> name, content |-> content, tree |-> tree]

NoHubPath == HubPath("none", "", Raw(""), <<>>)

HubResults ==
    { HubPath("dir", "1", Raw(""), MembersTwo),
      HubPath("dir", "1", Raw(""), <<>>),
      HubPath("file", "a.zip", Archive("zip", MembersTwo, "zf"), <<>>),
      HubPath("file", "a.zip", Archive("zip", <<>>, "z0"), <<>>),
      HubPath("file", "a.Tgz", Archive("tar", MembersFlat, "tf"), <<>>),
      HubPath("file", "a.7z", Raw("c2"), <<>>),
      HubPath("missing", "1", Raw(""), <<>>) }

\* how writing n entries may end: all written, or an error or a user
\* interrupt after the first k < n
WriteOutcomes(n) ==
    {[io |-> "ok", k |-> n]}
        \cup {[io |-> i, k |-> k] : i \in {"err", "int"}, k \in 0..(n - 1)}

-----------------------------------------------------------------------------
(* DatasetDownloader's helpers, as functions of the file system *)

NoHash == ""

\* verify_hash comparing the raw digest() with the hex string: never equal
verify_hash_raw_digest(f, path, expected_hash) == FALSE

\* verify_hash: the digest of the file at filepath against expected_hash
verify_hash(f, path, expected_hash) == Sha256Hex(f[path]) = expected_hash

\* download_file: urlretrieve, then the optional digest check; the except
\* clause logs and re-raises.  The result is the exception raised ("none"
\* when the call returns) and the files afterwards.
download_file(served, net, destination, expected_hash) ==
    LET put(c) == [p \in DOMAIN files \cup {destination} |->
                      IF p = destination THEN c ELSE files[p]]
    IN CASE net = "ok" ->
              IF expected_hash # NoHash /\ ~verify_hash(put(served), destination, expected_hash)
              THEN [exc |-> "ValueError", f |-> put(served)]
              ELSE [exc |-> "none", f |-> put(served)]
         [] net = "err_open" -> [exc |-> "URLError", f |-> files]
         [] net = "err_partial" -> [exc |-> "ContentTooShortError", f |-> put(Raw("part"))]
         [] OTHER -> [exc |-> "KeyboardInterrupt", f |-> put(Raw("part"))]

\* which branch of extract_archive the path's suffix selects
ArchiveKind(name) ==
    LET sfx == lower(suffix(name))
    IN IF sfx = <<".", "z", "i", "p">> THEN "zip"
       ELSE IF sfx \in {<<".", "t", "a", "r">>, <<".", "g", "z">>, <<".", "t", "g", "z">>}
            THEN "tar"
            ELSE "unsupported"

\* extract_archive: the exception raised ("none" when it returns), the files
\* and the directories afterwards.  o says how the member writes end.
extract_archive(name, content, extract_to, o) ==
    LET kind == ArchiveKind(name)
        w == Written(extract_to, content.members, 1..o.k)
    IN IF kind = "unsupported"
       THEN [exc |-> "ValueError", f |-> files, d |-> dirs]
       ELSE IF content.fmt # kind
            THEN [exc |-> IF kind = "zip" THEN "BadZipFile" ELSE "ReadError",
                  f |-> files, d |-> dirs]
            ELSE [exc |-> CASE o.io = "ok" -> "none"
                            [] o.io = "err" -> "OSError"
                            [] OTHER -> "KeyboardInterrupt",
                  f |-> w.f, d |-> w.d]

-----------------------------------------------------------------------------
(* Control: where an exception goes *)

\* the record kept of a helper call: its arguments, what it raised, and the
\* file system it started from
Call(op, name, dest, content, hash, net, exc, n) ==
    [op |-> op, name |-> name, dest |-> dest, content |-> content, hash |-> hash,
     net |-> net, exc |-> exc, before_f |-> files, before_d |-> dirs, n |-> n]

NoCall ==
    [op |-> "none", name |-> "", dest |-> Root, content |-> Raw(""), hash |-> NoHash,
     net |-> "", exc |-> "none", before_f |-> << >>, before_d |-> {}, n |-> 0]

\* control passes on inside run(); evs are the steps just made
Go(next, evs) ==
    /\ pc' = next
    /\ log' = log \o evs
    /\ exitCode' = exitCode

\* __main__, lines 217-222: whatever leaves run() ends the process with code 1
main_except(exc, evs) ==
    /\ pc' = "exited"
    /\ exitCode' = 1
    /\ log' = log \o evs
                \o <<IF exc = "KeyboardInterrupt" THEN "interrupted" ELSE "error">>

\* download_gtsdb without its try block: the failure leaves run()
gtsdb_except_missing(exc, evs) == main_except(exc, evs)

\* download_gtsdb's `except Exception`, lines 92-95: the failure is logged and
\* the method returns; a KeyboardInterrupt is no Exception and passes through
gtsdb_except(exc, evs) ==
    IF exc = "KeyboardInterrupt"
    THEN main_except(exc, evs)
    ELSE Go("lisa", evs \o <<"g_fail">>)

\* download_lisa's `except Exception`, lines 161-165
lisa_except(exc, evs) ==
    IF exc = "KeyboardInterrupt"
    THEN main_except(exc, evs)
    ELSE Go("final", evs \o <<"l_fail">>)

-----------------------------------------------------------------------------
(* The script, one action per step of __main__ and run().  Each step appends *)
(* what it did to log; an exception that leaves the step is logged by name.  *)

\* DatasetDownloader(): mkdir(parents=True, exist_ok=True) of the raw-data root
Construct ==
    /\ pc = "start"
    /\ UNCHANGED <<files, hubState, hub, runs, synced, had, last>>
    /\ \/ /\ dirs' = dirs \cup {Root}
          /\ Go("readme", <<"mkdir">>)
       \/ /\ Root \notin dirs
          /\ dirs' = dirs
          /\ main_except("OSError", <<"mkdir_fail", "OSError">>)

\* create_readme guarded like the datasets: an existing README.md is kept
create_readme_if_absent ==
    /\ pc = "readme"
    /\ UNCHANGED <<dirs, hubState, hub, runs, synced, had, last>>
    /\ files' = IF readme_path \in DOMAIN files
                THEN files
                ELSE [p \in DOMAIN files \cup {readme_path} |->
                         IF p = readme_path THEN readme_content ELSE files[p]]
    /\ Go("gtsdb", <<"readme">>)

\* create_readme: open(readme_path, 'w') and write the fixed text
create_readme ==
    /\ pc = "readme"
    /\ UNCHANGED <<dirs, hubState, hub, runs, synced, had, last>>
    /\ \/ /\ files' = [p \in DOMAIN files \cup {readme_path} |->
                          IF p = readme_path THEN readme_content ELSE files[p]]
          /\ Go("gtsdb", <<"readme">>)
       \/ /\ files' = files
          /\ main_except("OSError", <<"readme_fail", "OSError">>)
       \/ /\ files' = [p \in DOMAIN files \cup {readme_path} |->
                          IF p = readme_path THEN Raw("") ELSE files[p]]
          /\ main_except("OSError", <<"readme_fail", "OSError">>)

\* download_gtsdb without the skip-if-exists test
gtsdb_enter_no_skip ==
    /\ pc = "gtsdb"
    /\ UNCHANGED <<files, dirs, hubState, hub, runs, synced, last>>
    /\ had' = IF exists(gtsdb_dir) THEN had \cup {"GTSDB"} ELSE had
    /\ Go("g_download", <<"g_enter">>)

\* download_gtsdb, lines 68-74: the skip-if-exists test
gtsdb_enter ==
    /\ pc = "gtsdb"
    /\ UNCHANGED <<files, dirs, hubState, hub, runs, synced, last>>
    /\ IF exists(gtsdb_dir)
       THEN /\ had' = had \cup {"GTSDB"}
            /\ Go("lisa", <<"g_enter", "g_skip">>)
       ELSE /\ had' = had
            /\ Go("g_download", <<"g_enter">>)

\* download_gtsdb, line 85: download_file(url, filepath)
gtsdb_download ==
    /\ pc = "g_download"
    /\ UNCHANGED <<dirs, hubState, hub, runs, synced, had>>
    /\ \E served \in Served, net \in Net :
          LET r == download_file(served, net, filepath, NoHash)
          IN /\ files' = r.f
             /\ last' = Call("download_file", ArchiveName, filepath, served, NoHash,
                             net, r.exc, 0)
             /\ IF r.exc = "none"
                THEN Go("g_extract", <<"http">>)
                ELSE gtsdb_except(r.exc, <<"http", r.exc>>)

\* download_gtsdb, line 86: extract_archive(filepath, self.data_dir)
gtsdb_extract ==
    /\ pc = "g_extract"
    /\ UNCHANGED <<hubState, hub, runs, synced, had>>
    /\ \E o \in WriteOutcomes(Len(files[filepath].members)) :
          LET r == extract_archive(ArchiveName, files[filepath], Root, o)
          IN /\ files' = r.f
             /\ dirs' = r.d
             /\ last' = Call("extract_archive", ArchiveName, Root, files[filepath],
                             NoHash, o.io, r.exc, 0)
             /\ IF r.exc = "none"
                THEN Go("g_unlink", <<"extract">>)
                ELSE gtsdb_except(r.exc, <<"extract", r.exc>>)

\* download_gtsdb, lines 89-90: filepath.unlink() and the completion message
gtsdb_unlink ==
    /\ pc = "g_unlink"
    /\ UNCHANGED <<dirs, hubState, hub, runs, had, last>>
    /\ \/ /\ files' = [p \in DOMAIN files \ {filepath} |-> files[p]]
          /\ synced' = synced \cup {"GTSDB"}
          /\ Go("lisa", <<"unlink", "g_ok">>)
       \/ /\ files' = files
          /\ synced' = synced
          /\ gtsdb_except("OSError", <<"unlink", "OSError">>)

\* how shutil.copytree of n entries may end: all copied; os.makedirs(dst)
\* failed; some entries failed and the rest were copied (the errors are
\* collected and raised at the end); or a user interrupt after the first k
CopyOutcomes(n) ==
    {[io |-> "ok", made |-> TRUE, idx |-> 1..n]}
        \cup {[io |-> "err", made |-> FALSE, idx |-> {}]}
        \cup {[io |-> "err", made |-> TRUE, idx |-> S] : S \in (SUBSET (1..n)) \ {1..n}}
        \cup {[io |-> "int", made |-> TRUE, idx |-> 1..k] : k \in 0..(n - 1)}

\* download_lisa, lines 125-131: the skip-if-exists test
lisa_enter ==
    /\ pc = "lisa"
    /\ UNCHANGED <<files, dirs, hubState, hub, runs, synced, last>>
    /\ IF exists(lisa_dir)
       THEN /\ had' = had \cup {"LISA"}
            /\ Go("final", <<"l_enter", "l_skip">>)
       ELSE /\ had' = had
            /\ Go("l_import", <<"l_enter">>)

\* install_kagglehub, lines 99-103: `import kagglehub` under `except ImportError`;
\* called from download_lisa line 133, outside its try block
install_import ==
    /\ pc = "l_import"
    /\ UNCHANGED <<files, dirs, hubState, hub, runs, synced, had, last>>
    /\ CASE hubState = "ok" -> Go("l_import2", <<"import_ok">>)
         [] hubState = "absent" -> Go("l_pipx", <<"import_fail">>)
         [] OTHER -> main_except("BrokenImport", <<"import_crash", "BrokenImport">>)

\* install_kagglehub, lines 104-109: pipx install, `return True` on success
install_pipx ==
    /\ pc = "l_pipx"
    /\ UNCHANGED <<files, dirs, hub, runs, synced, had, last>>
    /\ \/ /\ hubState' \in {"absent", "ok"}
          /\ Go("l_import2", <<"pipx", "pipx_ok">>)
       \/ /\ hubState' = hubState
          /\ Go("l_pip", <<"pipx", "pipx_fail">>)
       \/ /\ hubState' = hubState
          /\ main_except("KeyboardInterrupt", <<"pipx", "KeyboardInterrupt">>)

\* install_kagglehub, lines 110-121: pip install, then `import kagglehub`;
\* any Exception makes it return False, and download_lisa returns at line 136
install_pip ==
    /\ pc = "l_pip"
    /\ UNCHANGED <<files, dirs, hub, runs, synced, had, last>>
    /\ \/ /\ hubState' = "ok"
          /\ Go("l_import2", <<"pip", "pip_ok", "import_ok">>)
       \/ /\ hubState' \in {"absent", "broken"}
          /\ Go("final", <<"pip", "pip_ok", "import_fail", "l_giveup">>)
       \/ /\ hubState' = hubState
          /\ Go("final", <<"pip", "pip_fail", "l_giveup">>)
       \/ /\ hubState' = hubState
          /\ main_except("KeyboardInterrupt", <<"pip", "KeyboardInterrupt">>)

\* download_lisa trusting install_kagglehub's True: the fetch is called
\* whether or not the package can be imported
lisa_import_unchecked ==
    /\ pc = "l_import2"
    /\ UNCHANGED <<files, dirs, hubState, hub, runs, synced, had, last>>
    /\ Go("l_fetch", <<"import_ok">>)

\* download_lisa, line 139: `import kagglehub` inside the try block
lisa_import ==
    /\ pc = "l_import2"
    /\ UNCHANGED <<files, dirs, hubState, hub, runs, synced, had, last>>
    /\ CASE hubState = "ok" -> Go("l_fetch", <<"import_ok">>)
         [] hubState = "absent" -> lisa_except("ImportError", <<"import_fail", "ImportError">>)
         [] OTHER -> lisa_except("BrokenImport", <<"import_crash", "BrokenImport">>)

\* download_lisa, line 145: kagglehub.dataset_download(...)
lisa_fetch ==
    /\ pc = "l_fetch"
    /\ UNCHANGED <<files, dirs, hubState, runs, synced, had, last>>
    /\ \/ /\ hub' \in HubResults
          /\ Go("l_place", <<"fetch">>)
       \/ /\ hub' = hub
          /\ lisa_except("HubError", <<"fetch", "HubError">>)
       \/ /\ hub' = hub
          /\ main_except("KeyboardInterrupt", <<"fetch", "KeyboardInterrupt">>)

\* download_lisa, lines 149-159, with target for lisa_dir: copy the returned
\* directory, or extract the returned file, into target; a missing path is
\* only reported
lisa_place_into(target) ==
    /\ pc = "l_place"
    /\ UNCHANGED <<hubState, hub, runs, had>>
    /\ CASE hub.kind = "dir" ->
              \E o \in CopyOutcomes(Len(hub.tree)) :
                 LET w == Written(target, hub.tree, o.idx)
                 IN /\ files' = w.f
                    /\ dirs' = IF o.made THEN w.d \cup {target} ELSE dirs
                    /\ last' = last
                    /\ IF o.io = "ok"
                       THEN /\ synced' = synced \cup {"LISA"}
                            /\ Go("final", <<"copy", "l_ok">>)
                       ELSE /\ synced' = synced
                            /\ LET exc == IF o.io = "int" THEN "KeyboardInterrupt"
                                                          ELSE "Error"
                               IN lisa_except(exc, <<"copy", exc>>)
         [] hub.kind = "file" ->
              \E o \in WriteOutcomes(Len(hub.content.members)) :
                 LET r == extract_archive(hub.name, hub.content, target, o)
                 IN /\ files' = r.f
                    /\ dirs' = r.d
                    /\ last' = Call("extract_archive", hub.name, target, hub.content,
                                    NoHash, o.io, r.exc, 0)
                    /\ IF r.exc = "none"
                       THEN /\ synced' = synced \cup {"LISA"}
                            /\ Go("final", <<"l_extract", "l_ok">>)
                       ELSE /\ synced' = synced
                            /\ lisa_except(r.exc, <<"l_extract", r.exc>>)
         [] OTHER ->
              /\ UNCHANGED <<files, dirs, synced, last>>
              /\ Go("final", <<"path_missing">>)

\* download_lisa placing the dataset in the raw-data root, as download_gtsdb does
lisa_place_in_root == lisa_place_into(Root)

lisa_place == lisa_place_into(lisa_dir)

\* run, lines 208-210, and the normal end of the process
finish ==
    /\ pc = "final"
    /\ UNCHANGED <<files, dirs, hubState, hub, runs, synced, had, last>>
    /\ pc' = "exited"
    /\ exitCode' = 0
    /\ log' = log \o <<"final">>

\* Ctrl-C between two steps: KeyboardInterrupt reaches __main__, line 217
Interrupt ==
    /\ pc \in {"start", "readme", "gtsdb", "g_download", "g_extract", "g_unlink",
               "lisa", "l_import", "l_pipx", "l_pip", "l_import2", "l_fetch",
               "l_place", "final"}
    /\ UNCHANGED <<files, dirs, hubState, hub, runs, synced, had, last>>
    /\ main_except("KeyboardInterrupt", <<"KeyboardInterrupt">>)

\* the script is started again on the disk the last run left
Rerun ==
    /\ pc = "exited"
    /\ runs < MaxRuns
    /\ pc' = "start"
    /\ exitCode' = -1
    /\ log' = <<>>
    /\ runs' = runs + 1
    /\ had' = {}
    /\ last' = NoCall
    /\ UNCHANGED <<files, dirs, hubState, hub, synced>>

\* what may lie under the raw-data root before the first run
OldReadme == Raw("readme_old")

InitDisks ==
    {[f |-> << >>, d |-> {}]}
      \cup { [f |-> [p \in ({readme_path} \cap r) \cup {g \o <<"old.ppm">> : g \in t}
                        |-> IF p = readme_path THEN OldReadme ELSE Raw("c2")],
              d |-> {Root} \cup t]
             : r \in SUBSET {readme_path}, t \in SUBSET {gtsdb_dir, lisa_dir} }

Init ==
    /\ pc = "start"
    /\ exitCode = -1
    /\ \E disk \in InitDisks : files = disk.f /\ dirs = disk.d
    /\ hubState \in {"ok", "absent", "broken"}
    /\ hub = NoHubPath
    /\ log = <<>>
    /\ runs = 1
    /\ synced = {}
    /\ had = {}
    /\ last = NoCall

Next ==
    \/ Construct
    \/ create_readme
    \/ gtsdb_enter
    \/ gtsdb_download
    \/ gtsdb_extract
    \/ gtsdb_unlink
    \/ lisa_enter
    \/ install_import
    \/ install_pipx
    \/ install_pip
    \/ lisa_import
    \/ lisa_fetch
    \/ lisa_place
    \/ finish
    \/ Interrupt
    \/ Rerun

Spec == Init /\ [][Next]_vars

-----------------------------------------------------------------------------
(* A driver for the helpers alone: download_file with and without an        *)
(* expected hash, and extract_archive on archive paths of every extension.  *)

UnitNames ==
    {"a.zip", "a.ZIP", "a.tar", "a.tar.gz", "a.Tgz", "a.7z", "a.zip.7z", ".zip", "zip"}

UnitContents ==
    { Archive("zip", MembersFlat, "zf"),
      Archive("tar", MembersFlat, "tf"),
      Archive("zip", MembersTwo, "zn"),
      Raw("c2") }

\* expected_hash arguments: none, the digests of two of the served contents,
\* and an upper-case spelling of one of them
Hashes == {NoHash, "cc33", "0a77", "CC33"}

InitUnit ==
    /\ pc = "unit"
    /\ exitCode = -1
    /\ \E n \in UnitNames, c \in UnitContents : files = [p \in {<<n>>} |-> c]
    /\ dirs = {Root}
    /\ hubState = "ok"
    /\ hub = NoHubPath
    /\ log = <<>>
    /\ runs = 1
    /\ synced = {}
    /\ had = {}
    /\ last = NoCall

unit_download_file ==
    /\ pc = "unit"
    /\ last.n < MaxCalls
    /\ UNCHANGED <<pc, exitCode, dirs, hubState, hub, log, runs, synced, had>>
    /\ \E n \in {"a.zip", "a.7z"}, served \in Served, net \in Net, h \in Hashes :
          LET r == download_file(served, net, <<n>>, h)
          IN /\ files' = r.f
             /\ last' = Call("download_file", n, <<n>>, served, h, net, r.exc, last.n + 1)

unit_extract_archive ==
    /\ pc = "unit"
    /\ last.n < MaxCalls
    /\ UNCHANGED <<pc, exitCode, hubState, hub, log, runs, synced, had>>
    /\ \E n \in UnitNames, dest \in {Root, <<"out">>} :
          /\ <<n>> \in DOMAIN files
          /\ \E o \in WriteOutcomes(Len(files[<<n>>].members)) :
                LET r == extract_archive(n, files[<<n>>], dest, o)
                IN /\ files' = r.f
                   /\ dirs' = r.d
                   /\ last' = Call("extract_archive", n, dest, files[<<n>>], NoHash,
                                   o.io, r.exc, last.n + 1)

NextUnit ==
    \/ unit_download_file
    \/ unit_extract_archive

SpecUnit == InitUnit /\ [][NextUnit]_vars

-----------------------------------------------------------------------------
(* Vocabulary of the properties *)

InLog(e) == \E i \in 1..Len(log) : log[i] = e

\* the last two entries of log
Ends(a, b) == Len(log) >= 2 /\ log[Len(log) - 1] = a /\ log[Len(log)] = b

\* the entries a step appended to log
Appended == {log'[i] : i \in (Len(log) + 1)..Len(log')}

\* calls that leave the process, and writes below the raw-data root
OutsideCalls == {"http", "import_ok", "import_fail", "import_crash", "pipx", "pip", "fetch"}

DiskWrites == {"extract", "unlink", "copy", "l_extract"}

\* the step of run() an entry belongs to; 0 for exception names and the
\* messages of __main__
Phase(e) ==
    CASE e \in {"mkdir", "mkdir_fail"} -> 1
      [] e \in {"readme", "readme_fail"} -> 2
      [] e \in {"g_enter", "g_skip", "http", "extract", "unlink", "g_ok", "g_fail"} -> 3
      [] e \in {"l_enter", "l_skip", "import_ok", "import_fail", "import_crash",
                "pipx", "pipx_ok", "pipx_fail", "pip", "pip_ok", "pip_fail",
                "l_giveup", "fetch", "copy", "l_extract", "l_ok", "l_fail",
                "path_missing"} -> 4
      [] e = "final" -> 5
      [] OTHER -> 0

\* the failures the error policy names, by the exception that carries them
ListedFailures ==
    {"URLError", "ContentTooShortError", "ValueError", "BadZipFile", "ReadError",
     "OSError", "Error", "HubError", "ImportError"}

\* entry i was logged inside a dataset sync
InSync(i) == \E j \in 1..(i - 1) : log[j] = "g_enter"

\* a listed failure was raised inside the GTSDB sync
GtsdbFailed ==
    \E i \in 1..Len(log) :
        /\ log[i] \in ListedFailures
        /\ InSync(i)
        /\ \A j \in 1..i : log[j] # "l_enter"

\* the first import of install_kagglehub raised something other than ImportError
CrashAtInstall ==
    \E i \in 1..(Len(log) - 1) : log[i] = "l_enter" /\ log[i + 1] = "import_crash"

\* all members of ms lie below dest with their data
AllBelow(dest, ms) ==
    \A i \in 1..Len(ms) :
        /\ dest \o ms[i].path \in DOMAIN files
        /\ files[dest \o ms[i].path] = Raw(ms[i].data)

-----------------------------------------------------------------------------
(* Properties *)

\* C1: a sync that finds its target directory present ends in that very step:
\* control passes to the next step of run() (or the process is interrupted),
\* nothing under the raw-data root, the kagglehub cache or the installed
\* packages changes, and no download, import, installer or fetch is logged.
C1_SkipIsNoOp ==
    [][ /\ (pc = "gtsdb" /\ gtsdb_dir \in dirs) =>
              /\ pc' \in {"lisa", "exited"}
              /\ files' = files /\ dirs' = dirs /\ hub' = hub /\ hubState' = hubState
              /\ Appended \cap (OutsideCalls \cup DiskWrites) = {}
        /\ (pc = "lisa" /\ lisa_dir \in dirs) =>
              /\ pc' \in {"final", "exited"}
              /\ files' = files /\ dirs' = dirs /\ hub' = hub /\ hubState' = hubState
              /\ Appended \cap (OutsideCalls \cup DiskWrites) = {}
      ]_vars

\* a run in which both syncs found their directories and were skipped
C1_Witness ==
    /\ pc = "exited" /\ exitCode = 0
    /\ InLog("g_skip") /\ InLog("l_skip")
    /\ gtsdb_dir \in dirs /\ lisa_dir \in dirs

C3_ExitCodeAsClaimed ==
    pc = "exited" =>
        /\ exitCode \in {0, 1}
        /\ exitCode = 1 <=>
              (InLog("KeyboardInterrupt") \/ InLog("mkdir_fail") \/ InLog("readme_fail"))
        /\ (InLog("mkdir_fail") \/ InLog("readme_fail")) => ~InLog("g_enter")

\* C4 as claimed: when the GTSDB sync started without a GTSDB directory and
\* ran to its completion message, every member of the archive lies below
\* GTSDB/ and the temporary archive is gone.
C4_MembersUnderGtsdbAsClaimed ==
    (pc = "lisa" /\ Ends("unlink", "g_ok") /\ "GTSDB" \notin had) =>
        /\ last.op = "extract_archive"
        /\ AllBelow(gtsdb_dir, last.content.members)
        /\ filepath \notin DOMAIN files

\* C5: after download_file completed its transfer: with an expected hash
\* equal to the file's digest it returned; with a different one it raised
\* ValueError and the destination holds exactly what was downloaded; with no
\* expected hash it returned.
C5_HashCheck ==
    (last.op = "download_file" /\ last.net = "ok") =>
        /\ (last.hash # NoHash /\ Sha256Hex(last.content) = last.hash) =>
              last.exc = "none"
        /\ (last.hash # NoHash /\ Sha256Hex(last.content) # last.hash) =>
              /\ last.exc = "ValueError"
              /\ last.dest \in DOMAIN files
              /\ files[last.dest] = last.content
        /\ last.hash = NoHash => last.exc = "none"

\* a download whose digest differs from the expected hash
C5_Witness ==
    /\ last.op = "download_file" /\ last.net = "ok"
    /\ last.hash = "cc33" /\ last.content.data = "html"
    /\ last.exc = "ValueError"

\* C6: extract_archive goes by the final extension whatever its case: .zip
\* opens the file as a zip (a non-zip raises BadZipFile, a zip is extracted
\* below the destination), .tar, .gz and .tgz open it as a tar (a non-tar
\* raises ReadError), and any other name raises ValueError with the files
\* and directories as they were.
C6_Dispatch ==
    last.op = "extract_archive" =>
        /\ last.name \in {"a.zip", "a.ZIP"} =>
              IF last.content.fmt = "zip"
              THEN /\ last.exc \in {"none", "OSError", "KeyboardInterrupt"}
                   /\ last.exc = "none" => AllBelow(last.dest, last.content.members)
              ELSE last.exc = "BadZipFile" /\ files = last.before_f /\ dirs = last.before_d
        /\ last.name \in {"a.tar", "a.tar.gz", "a.Tgz"} =>
              IF last.content.fmt = "tar"
              THEN /\ last.exc \in {"none", "OSError", "KeyboardInterrupt"}
                   /\ last.exc = "none" => AllBelow(last.dest, last.content.members)
              ELSE last.exc = "ReadError" /\ files = last.before_f /\ dirs = last.before_d
        /\ last.name \in {"a.7z", "a.zip.7z", ".zip", "zip"} =>
              last.exc = "ValueError" /\ files = last.before_f /\ dirs = last.before_d

\* a zip archive named with an upper-case extension was extracted
C6_Witness ==
    /\ last.op = "extract_archive" /\ last.name = "a.ZIP"
    /\ last.content.fmt = "zip" /\ last.exc = "none"
    /\ <<"out", "a.txt">> \in DOMAIN files

\* C7: whatever a step logs belongs to the same or a later step of run()
\* than everything logged before it, in the order mkdir, readme, GTSDB sync,
\* LISA sync, final message; nothing of a dataset sync is logged unless the
\* log starts with mkdir and readme; nothing of the LISA sync is logged
\* before the GTSDB sync has ended, and the final message only after the LISA
\* sync has ended; and the README step always leaves README.md with the
\* fixed text, whatever it held before.
C7_Order ==
    [][ /\ \A j \in (Len(log) + 1)..Len(log') :
              Phase(log'[j]) > 0 =>
                  \A i \in 1..(j - 1) : Phase(log'[i]) <= Phase(log'[j])
        /\ \A j \in (Len(log) + 1)..Len(log') :
              Phase(log'[j]) >= 3 => (j > 2 /\ log'[1] = "mkdir" /\ log'[2] = "readme")
        /\ \A j \in (Len(log) + 1)..Len(log') :
              Phase(log'[j]) = 4 =>
                  \E i \in 1..(j - 1) : log'[i] \in {"g_skip", "g_ok", "g_fail"}
        /\ \A j \in (Len(log) + 1)..Len(log') :
              log'[j] = "final" =>
                  \E i \in 1..(j - 1) :
                      log'[i] \in {"l_skip", "l_ok", "l_fail", "l_giveup", "path_missing"}
        /\ pc' \in {"gtsdb", "g_download", "g_extract", "g_unlink", "lisa", "l_import",
                    "l_pipx", "l_pip", "l_import2", "l_fetch", "l_place", "final"}
              => \E i \in 1..Len(log') : log'[i] = "readme"
        /\ (pc = "readme" /\ pc' # "exited") =>
              /\ pc' = "gtsdb"
              /\ readme_path \in DOMAIN files'
              /\ files'[readme_path] = readme_content
      ]_vars

\* a second run over a disk that holds both datasets and a README
C7_Witness ==
    /\ runs = 2 /\ pc = "exited" /\ exitCode = 0
    /\ "GTSDB" \in had /\ "LISA" \in had
    /\ files[readme_path] = readme_content

\* C8: when the first import succeeds no installer runs; pipx runs only
\* right after a failed import and pip only right after a failed pipx; the
\* fetch is called only while kagglehub is importable; and giving up happens
\* after both installers were tried, without a fetch and without a LISA
\* directory.
C8_Provisioning ==
    /\ \A i \in 1..(Len(log) - 1) :
          (log[i] = "l_enter" /\ log[i + 1] = "import_ok") =>
              ~InLog("pipx") /\ ~InLog("pip")
    /\ \A i \in 1..Len(log) :
          log[i] = "pipx" => (i > 2 /\ log[i - 1] = "import_fail" /\ log[i - 2] = "l_enter")
    /\ \A i \in 1..Len(log) :
          log[i] = "pip" => (i > 2 /\ log[i - 1] = "pipx_fail" /\ log[i - 2] = "pipx")
    /\ (pc = "l_fetch" \/ InLog("fetch")) => hubState = "ok"
    /\ InLog("l_giveup") =>
          /\ InLog("pipx_fail") /\ InLog("pip")
          /\ ~InLog("fetch")
          /\ lisa_dir \notin dirs

\* both installers failed and the run ended normally
C8_Witness ==
    /\ pc = "exited" /\ exitCode = 0
    /\ InLog("pipx_fail") /\ InLog("pip_fail") /\ InLog("l_giveup")

\* C9: a returned directory is copied, with everything in it, to LISA/; a
\* returned file is handed to extract_archive with LISA/ as destination and
\* its members end up below LISA/; a missing path leaves no LISA directory,
\* copies and extracts nothing and raises nothing; and no step of the
\* program other than the fetch itself changes what the returned path holds.
C9_Placement ==
    /\ [](/\ InLog("copy") => hub.kind = "dir"
          /\ (pc = "final" /\ Ends("copy", "l_ok")) =>
                lisa_dir \in dirs /\ AllBelow(lisa_dir, hub.tree)
          /\ InLog("l_extract") =>
                /\ hub.kind = "file"
                /\ last.op = "extract_archive"
                /\ last.name = hub.name /\ last.content = hub.content
                /\ last.dest = lisa_dir
          /\ (pc = "final" /\ Ends("l_extract", "l_ok")) =>
                AllBelow(lisa_dir, hub.content.members)
          /\ (InLog("fetch") /\ hub.kind = "missing" /\ pc \in {"final", "exited"}
                /\ ~InLog("KeyboardInterrupt") /\ ~InLog("HubError")) =>
                /\ InLog("path_missing")
                /\ ~InLog("copy") /\ ~InLog("l_extract")
                /\ ~InLog("l_fail") /\ ~InLog("error")
                /\ lisa_dir \notin dirs)
    /\ [][pc # "l_fetch" => hub' = hub]_vars

\* a returned directory of two entries was copied
C9_Witness ==
    /\ pc = "final" /\ Ends("copy", "l_ok")
    /\ Len(hub.tree) = 2
    /\ <<"LISA", "sub", "y.jpg">> \in DOMAIN files

\* C10 as claimed, first half: a dataset whose sync ran to its completion
\* message in an earlier run is found present by every later run, which
\* then neither downloads nor provisions or fetches anything for it.
C10_IdempotentAsClaimed ==
    /\ pc = "g_download" => "GTSDB" \notin synced
    /\ pc = "l_import" => "LISA" \notin synced

\* C10 as claimed, second half: a dataset directory that was absent when its
\* sync started exists afterwards only if that sync ran to completion.
C10_OnlyIfCompletedAsClaimed ==
    /\ (pc \in {"lisa", "l_import", "final"} /\ InLog("g_enter") /\ "GTSDB" \notin had
          /\ gtsdb_dir \in dirs) => InLog("g_ok")
    /\ (pc = "final" /\ InLog("l_enter") /\ "LISA" \notin had /\ lisa_dir \in dirs) =>
          InLog("l_ok")

====
